---- MODULE Spec2Model ----
(***************************************************************************)
(* Dynamic upload heap of the D3D12 backend.                               *)
(*                                                                         *)
(*   D3D12DynamicPage           a committed upload buffer (or an invalid   *)
(*                              page when the device refused to create it) *)
(*   D3D12DynamicMemoryManager  shared pool: m_AvailablePages (multimap    *)
(*                              keyed by size) and m_StalePages (deque of  *)
(*                              pages tagged with a fence value)           *)
(*   D3D12DynamicHeap           one per device context: linear allocator   *)
(*                              over the pages it took from the manager    *)
(*                                                                         *)
(* Uint64 arithmetic is modelled modulo 2^Width.                           *)
(***************************************************************************)
EXTENDS Integers, Sequences, FiniteSets

\* ------------------------------------------------------------------ bounds

\* Number of bits of the unsigned size type (Uint64 in the code).
Width == 4

\* Nominal page size of the heaps and of the manager's reservation.
PageSize == 4

\* Memory of the device, in nominal pages: CreateCommittedResource fails once
\* the buffers created so far would exceed it (it may fail before that as
\* well).  The memory is smaller than the range of the size type.
DevicePages == 3

\* Largest number of pages reserved by the manager's constructor.
MaxReserve == 1

\* Largest value of the next-fence counter of the command queue.
MaxFence == 2

\* Device contexts, each owning one D3D12DynamicHeap.
Contexts == {"ctx1", "ctx2"}

Modulus == 2 ^ Width

DeviceMemory == DevicePages * PageSize

\* Requested sizes of the contexts sharing the manager: a page and more than
\* a page.
SizeInputs == {PageSize, PageSize + 1}

\* Requested sizes of the single heap: both ends of the range of the size
\* type and the sizes around a page.
AllSizes == {0, 1, PageSize - 1, PageSize, PageSize + 1, Modulus - 2, Modulus - 1}

\* Requested alignments (powers of two).
AlignInputs == {1, 4}

\* ------------------------------------------------------------------- state

VARIABLES
    m_AvailablePages,     \* manager: sequence of pages ordered by size
    m_StalePages,         \* manager: sequence of [Page, FenceValue]
    NumCreated,           \* device: number of buffers created so far
    DeviceUsed,           \* device: bytes of the buffers created so far
    DestroyedPages,       \* ids of the pages released by Destroy()
    m_AllocatedPages,     \* heap: pages taken since the last FinishFrame
    m_CurrOffset,         \* heap: offset in the current page, or InvalidOffset
    m_AvailableSize,      \* heap: bytes left in the current page
    m_CurrAllocatedSize,  \* heap: sum of the sizes of m_AllocatedPages
    m_CurrUsedSize,       \* heap: bytes handed out this frame
    m_PeakAllocatedSize,  \* heap: largest m_CurrAllocatedSize so far
    m_PeakUsedSize,       \* heap: largest m_CurrUsedSize so far
    PageUsed,             \* history: bytes handed out from the current page
    HighWater,            \* history: highest end of a range returned from
                          \* the current page
    pc,                   \* context: "frame", "finishing" or "hung"
    CtxFence,             \* context: fence value read for FinishFrame
    NextFenceValue,       \* command queue: next fence value to be signaled
    CompletedFenceValue   \* command queue: last completed fence value

devVars == <<NumCreated, DeviceUsed>>
mgrVars == <<m_AvailablePages, m_StalePages, devVars, DestroyedPages>>
heapVars == <<m_AllocatedPages, m_CurrOffset, m_AvailableSize,
              m_CurrAllocatedSize, m_CurrUsedSize, m_PeakAllocatedSize,
              m_PeakUsedSize, PageUsed, HighWater>>
queueVars == <<NextFenceValue, CompletedFenceValue>>
vars == <<mgrVars, heapVars, pc, CtxFence, queueVars>>

\* ----------------------------------------------------------------- helpers

Min(a, b) == IF a <= b THEN a ELSE b

\* std::max
Max(a, b) == IF a >= b THEN a ELSE b

\* static_cast<Uint64>(-1)
InvalidOffset == Modulus - 1

\* (val + (alignment-1)) & ~(alignment-1), alignment a power of two
Align(val, alignment) ==
    LET t == (val + (alignment - 1)) % Modulus
    IN  t - (t % alignment)

\* A page whose buffer could not be created: null buffer, size 0.
InvalidPage == [id |-> 0, size |-> 0, valid |-> FALSE]

\* IsValid()
IsValid(Page) == Page.valid

\* GetSize()
GetSize(Page) == Page.size

\* D3D12DynamicPage(pd3d12Device, Size): CreateCommittedResource either
\* succeeds (a buffer of Width = Size) or fails (the page stays invalid).
\* dev is the device: [Created, Used].
D3D12DynamicPage(Size, dev, DeviceOk) ==
    IF DeviceOk /\ dev.Used + Size <= DeviceMemory
    THEN [id |-> dev.Created + 1, size |-> Size, valid |-> TRUE]
    ELSE InvalidPage

\* The device after the construction of Page.
DeviceAfter(dev, Page) ==
    IF IsValid(Page)
    THEN [Created |-> dev.Created + 1, Used |-> dev.Used + GetSize(Page)]
    ELSE dev

\* ------------------------------------------- D3D12DynamicMemoryManager

\* multimap::emplace(Size, Page): the new element goes after the elements
\* whose key is not greater than Size.
Emplace(avail, Page) ==
    LET k == Cardinality({i \in DOMAIN avail : GetSize(avail[i]) <= GetSize(Page)})
    IN  SubSeq(avail, 1, k) \o <<Page>> \o SubSeq(avail, k + 1, Len(avail))

\* multimap::lower_bound(key): index of the first element whose key is not
\* less than key, 0 for end().
LowerBound(avail, key) ==
    LET ge == {i \in DOMAIN avail : GetSize(avail[i]) >= key}
    IN  IF ge = {} THEN 0 ELSE CHOOSE i \in ge : \A j \in ge : i <= j

\* Erase that leaves the element in the multimap.
Erase_Keep(avail, PageIt) == avail

\* multimap::erase(PageIt)
Erase(avail, PageIt) ==
    SubSeq(avail, 1, PageIt - 1) \o SubSeq(avail, PageIt + 1, Len(avail))

\* The constructor's reservation loop: NumPagesToReserve pages of PageSize,
\* ReserveOk[i] telling whether the device created the i-th buffer.
RECURSIVE ReservePages(_, _, _, _)
ReservePages(avail, dev, i, ReserveOk) ==
    IF i > Len(ReserveOk)
    THEN [Available |-> avail, Device |-> dev]
    ELSE LET Page == D3D12DynamicPage(PageSize, dev, ReserveOk[i])
         IN  ReservePages(Emplace(avail, Page), DeviceAfter(dev, Page),
                          i + 1, ReserveOk)

\* The largest page that is large enough taken for the smallest.
AllocatePageIt_Last(avail, SizeInBytes) ==
    IF LowerBound(avail, SizeInBytes) = 0 THEN 0 ELSE Len(avail)

\* begin() taken for lower_bound(SizeInBytes).
AllocatePageIt_Begin(avail, SizeInBytes) == IF avail = <<>> THEN 0 ELSE 1

\* The iterator AllocatePage takes the page from.
AllocatePageIt(avail, SizeInBytes) == LowerBound(avail, SizeInBytes)

\* AllocatePage(SizeInBytes): the page returned, the available pages left and
\* the device, under m_AvailablePagesMtx.
AllocatePage(avail, dev, SizeInBytes, DeviceOk) ==
    LET PageIt == AllocatePageIt(avail, SizeInBytes)
    IN  IF PageIt # 0
        THEN [Page      |-> avail[PageIt],
              Available |-> Erase(avail, PageIt),
              Device    |-> dev,
              Source    |-> "available"]
        ELSE LET Page == D3D12DynamicPage(SizeInBytes, dev, DeviceOk)
             IN  [Page      |-> Page,
                  Available |-> avail,
                  Device    |-> DeviceAfter(dev, Page),
                  Source    |-> "device"]

\* DiscardPages(Pages, FenceValue): every page is appended to the stale
\* pages with the fence value.
DiscardPages(stale, Pages, FenceValue) ==
    stale \o [i \in DOMAIN Pages |-> [Page |-> Pages[i], FenceValue |-> FenceValue]]

\* Whether the page at the front of the stale pages may be released.
IsStale(Entry, LastCompletedFenceValue) ==
    Entry.FenceValue <= LastCompletedFenceValue

\* ReleaseStalePages(LastCompletedFenceValue): pages are moved from the front
\* of the stale pages to the available pages until the first page whose
\* fence value is not completed.
RECURSIVE ReleaseStalePages(_, _, _)
ReleaseStalePages(stale, avail, LastCompletedFenceValue) ==
    IF stale # <<>> /\ IsStale(Head(stale), LastCompletedFenceValue)
    THEN ReleaseStalePages(Tail(stale), Emplace(avail, Head(stale).Page),
                           LastCompletedFenceValue)
    ELSE [Stale |-> stale, Available |-> avail]

\* ------------------------------------------------------- D3D12DynamicHeap

\* Result of the page size loop when it never exits.
Diverges == -1

\* auto NewPageSize = m_PageSize; while (NewPageSize < SizeInBytes) NewPageSize *= 2;
\* Once NewPageSize is 0 and smaller than SizeInBytes it stays 0 forever.
RECURSIVE GrowPageSize(_, _)
GrowPageSize(NewPageSize, SizeInBytes) ==
    IF NewPageSize >= SizeInBytes THEN NewPageSize
    ELSE IF NewPageSize = 0 THEN Diverges
    ELSE GrowPageSize((NewPageSize * 2) % Modulus, SizeInBytes)

\* SizeInBytes + (Align(m_CurrOffset, Alignment) - m_CurrOffset)
AdjustedSize(CurrOffset, SizeInBytes, Alignment) ==
    (SizeInBytes + Align(CurrOffset, Alignment) + Modulus - CurrOffset) % Modulus

\* The condition of the second if of Allocate.
Fits(CurrOffset, AvailableSize, SizeInBytes, Alignment) ==
    /\ CurrOffset # InvalidOffset
    /\ AdjustedSize(CurrOffset, SizeInBytes, Alignment) <= AvailableSize

\* The condition of the first if of Allocate.
NeedNewPage(CurrOffset, AvailableSize, SizeInBytes, Alignment) ==
    \/ CurrOffset = InvalidOffset
    \/ AdjustedSize(CurrOffset, SizeInBytes, Alignment) > AvailableSize

\* The empty allocation, D3D12DynamicAllocation{}.
EmptyAllocation == [Valid |-> FALSE, Offset |-> 0, Size |-> 0, PageId |-> 0]

\* The device as AllocatePage finds it.
Device == [Created |-> NumCreated, Used |-> DeviceUsed]

\* The page request of Allocate: none when the current page serves the
\* request, otherwise m_DynamicMemMgr.AllocatePage(NewPageSize).
AllocateNewPage(NewPageSize, need, DeviceOk) ==
    IF need
    THEN AllocatePage(m_AvailablePages, Device, NewPageSize, DeviceOk)
    ELSE [Page |-> InvalidPage, Available |-> m_AvailablePages,
          Device |-> Device, Source |-> "none"]

\* Allocate without the test of NewPage.IsValid().
TakesNewPage_Unchecked(need, NewPage) == need

\* Whether Allocate installs the page returned by the manager.
TakesNewPage(need, NewPage) == need /\ IsValid(NewPage)

\* The allocation Allocate returns from the page at the back of Pages.
MakeAllocation(Pages, CurrOffset, SizeInBytes, Alignment) ==
    [Valid  |-> TRUE,
     Offset |-> Align(CurrOffset, Alignment),
     Size   |-> SizeInBytes,
     PageId |-> Pages[Len(Pages)].id]

\* D3D12DynamicHeap::Allocate(SizeInBytes, Alignment) of context c, computed
\* from the current state: whether the page size loop hangs, the request to
\* the manager and its answer, the members of the heap after the call and
\* the allocation returned.
AllocateCall(c, SizeInBytes, Alignment, DeviceOk) ==
    LET need == NeedNewPage(m_CurrOffset[c], m_AvailableSize[c],
                            SizeInBytes, Alignment)
        NewPageSize == IF need THEN GrowPageSize(PageSize, SizeInBytes) ELSE 0
        Hangs == NewPageSize = Diverges
        r == AllocateNewPage(IF Hangs THEN 0 ELSE NewPageSize,
                             need /\ ~Hangs, DeviceOk)
        took == TakesNewPage(need /\ ~Hangs, r.Page)
        Offset1 == IF took THEN 0 ELSE m_CurrOffset[c]
        Avail1 == IF took THEN GetSize(r.Page) ELSE m_AvailableSize[c]
        Alloc1 == IF took THEN (m_CurrAllocatedSize[c] + Avail1) % Modulus
                  ELSE m_CurrAllocatedSize[c]
        Pages1 == IF took THEN Append(m_AllocatedPages[c], r.Page)
                  ELSE m_AllocatedPages[c]
        ok == ~Hangs /\ Fits(Offset1, Avail1, SizeInBytes, Alignment)
        Adjusted == AdjustedSize(Offset1, SizeInBytes, Alignment)
        Used1 == IF ok THEN (m_CurrUsedSize[c] + SizeInBytes) % Modulus
                 ELSE m_CurrUsedSize[c]
        PageUsed0 == IF took THEN 0 ELSE PageUsed[c]
        HighWater0 == IF took THEN 0 ELSE HighWater[c]
    IN  [Hangs       |-> Hangs,
         NeedNewPage |-> need,
         NewPageSize |-> NewPageSize,
         Source      |-> r.Source,
         NewPage     |-> r.Page,
         Available   |-> r.Available,
         Device      |-> r.Device,
         Pages       |-> Pages1,
         CurrOffset  |-> IF ok THEN (Offset1 + Adjusted) % Modulus ELSE Offset1,
         AvailableSize |-> IF ok THEN Avail1 - Adjusted ELSE Avail1,
         CurrAllocatedSize |-> Alloc1,
         CurrUsedSize |-> Used1,
         PeakAllocatedSize |-> IF took THEN Max(m_PeakAllocatedSize[c], Alloc1)
                               ELSE m_PeakAllocatedSize[c],
         PeakUsedSize |-> IF ok THEN Max(m_PeakUsedSize[c], Used1)
                          ELSE m_PeakUsedSize[c],
         PageUsed    |-> IF ok THEN Min(PageUsed0 + SizeInBytes, Modulus)
                         ELSE PageUsed0,
         HighWater   |-> IF ok
                         THEN Max(HighWater0, Align(Offset1, Alignment) + SizeInBytes)
                         ELSE HighWater0,
         Allocation  |-> IF ok
                         THEN MakeAllocation(Pages1, Offset1, SizeInBytes, Alignment)
                         ELSE EmptyAllocation]

\* ------------------------------------------------------------------- Init

\* State after the construction of the manager (NumPagesToReserve pages of
\* PageSize, some of which the device may have failed to create) and of one
\* heap per context.
Init ==
    /\ \E n \in 0 .. MaxReserve : \E ReserveOk \in [1 .. n -> BOOLEAN] :
         LET r == ReservePages(<<>>, [Created |-> 0, Used |-> 0], 1, ReserveOk)
         IN  /\ m_AvailablePages = r.Available
             /\ NumCreated = r.Device.Created
             /\ DeviceUsed = r.Device.Used
    /\ m_StalePages = <<>>
    /\ DestroyedPages = {}
    /\ m_AllocatedPages = [c \in Contexts |-> <<>>]
    /\ m_CurrOffset = [c \in Contexts |-> InvalidOffset]
    /\ m_AvailableSize = [c \in Contexts |-> 0]
    /\ m_CurrAllocatedSize = [c \in Contexts |-> 0]
    /\ m_CurrUsedSize = [c \in Contexts |-> 0]
    /\ m_PeakAllocatedSize = [c \in Contexts |-> 0]
    /\ m_PeakUsedSize = [c \in Contexts |-> 0]
    /\ PageUsed = [c \in Contexts |-> 0]
    /\ HighWater = [c \in Contexts |-> 0]
    /\ pc = [c \in Contexts |-> "frame"]
    /\ CtxFence = [c \in Contexts |-> 0]
    /\ NextFenceValue = 1
    /\ CompletedFenceValue = 0

\* ---------------------------------------------------------------- actions

\* Context c calls Allocate(SizeInBytes, Alignment).  When the page size loop
\* never exits the call does not return and the context hangs.
Allocate(c, SizeInBytes, Alignment, DeviceOk) ==
    /\ pc[c] = "frame"
    /\ LET call == AllocateCall(c, SizeInBytes, Alignment, DeviceOk)
       IN  IF call.Hangs
           THEN /\ pc' = [pc EXCEPT ![c] = "hung"]
                /\ UNCHANGED <<mgrVars, heapVars, CtxFence, queueVars>>
           ELSE /\ m_AvailablePages' = call.Available
                /\ NumCreated' = call.Device.Created
                /\ DeviceUsed' = call.Device.Used
                /\ m_AllocatedPages' = [m_AllocatedPages EXCEPT ![c] = call.Pages]
                /\ m_CurrOffset' = [m_CurrOffset EXCEPT ![c] = call.CurrOffset]
                /\ m_AvailableSize' =
                     [m_AvailableSize EXCEPT ![c] = call.AvailableSize]
                /\ m_CurrAllocatedSize' =
                     [m_CurrAllocatedSize EXCEPT ![c] = call.CurrAllocatedSize]
                /\ m_CurrUsedSize' = [m_CurrUsedSize EXCEPT ![c] = call.CurrUsedSize]
                /\ m_PeakAllocatedSize' =
                     [m_PeakAllocatedSize EXCEPT ![c] = call.PeakAllocatedSize]
                /\ m_PeakUsedSize' = [m_PeakUsedSize EXCEPT ![c] = call.PeakUsedSize]
                /\ PageUsed' = [PageUsed EXCEPT ![c] = call.PageUsed]
                /\ HighWater' = [HighWater EXCEPT ![c] = call.HighWater]
                /\ UNCHANGED <<m_StalePages, DestroyedPages, pc, CtxFence, queueVars>>

\* The context reads the fence value its frame will be signaled with.
ReadFence(c) ==
    /\ pc[c] = "frame"
    /\ pc' = [pc EXCEPT ![c] = "finishing"]
    /\ CtxFence' = [CtxFence EXCEPT ![c] = NextFenceValue]
    /\ UNCHANGED <<mgrVars, heapVars, queueVars>>

\* DiscardPages called with a fence value that is always completed.
FinishFrameDiscard_NoFence(stale, Pages, FenceValue) ==
    DiscardPages(stale, Pages, 0)

\* m_DynamicMemMgr.DiscardPages(m_AllocatedPages, FenceValue)
FinishFrameDiscard(stale, Pages, FenceValue) ==
    DiscardPages(stale, Pages, FenceValue)

\* FinishFrame without m_AllocatedPages.clear().
FinishFrameClear_Keep(Pages) == Pages

\* m_AllocatedPages.clear()
FinishFrameClear(Pages) == <<>>

\* D3D12DynamicHeap::FinishFrame(FenceValue) of context c, FenceValue being
\* the fence value the context read.
FinishFrame(c) ==
    /\ pc[c] = "finishing"
    /\ m_StalePages' = FinishFrameDiscard(m_StalePages, m_AllocatedPages[c], CtxFence[c])
    /\ m_AllocatedPages' = [m_AllocatedPages EXCEPT ![c] = FinishFrameClear(@)]
    /\ m_CurrOffset' = [m_CurrOffset EXCEPT ![c] = InvalidOffset]
    /\ m_AvailableSize' = [m_AvailableSize EXCEPT ![c] = 0]
    /\ m_CurrAllocatedSize' = [m_CurrAllocatedSize EXCEPT ![c] = 0]
    /\ m_CurrUsedSize' = [m_CurrUsedSize EXCEPT ![c] = 0]
    /\ PageUsed' = [PageUsed EXCEPT ![c] = 0]
    /\ HighWater' = [HighWater EXCEPT ![c] = 0]
    /\ pc' = [pc EXCEPT ![c] = "frame"]
    /\ CtxFence' = [CtxFence EXCEPT ![c] = 0]
    /\ UNCHANGED <<m_AvailablePages, devVars, DestroyedPages, queueVars,
                   m_PeakAllocatedSize, m_PeakUsedSize>>

\* The command queue is given a command list: the next fence value advances.
SignalFence ==
    /\ NextFenceValue < MaxFence
    /\ NextFenceValue' = NextFenceValue + 1
    /\ UNCHANGED <<mgrVars, heapVars, pc, CtxFence, CompletedFenceValue>>

\* The GPU completes the work of one more fence value.
CompleteFence ==
    /\ CompletedFenceValue < NextFenceValue - 1
    /\ CompletedFenceValue' = CompletedFenceValue + 1
    /\ UNCHANGED <<mgrVars, heapVars, pc, CtxFence, NextFenceValue>>

\* The device calls ReleaseStalePages(CompletedFenceValue).
ReleaseStale ==
    /\ LET r == ReleaseStalePages(m_StalePages, m_AvailablePages, CompletedFenceValue)
       IN  /\ m_StalePages' = r.Stale
           /\ m_AvailablePages' = r.Available
    /\ UNCHANGED <<devVars, DestroyedPages, heapVars, pc, CtxFence, queueVars>>

\* DEV_CHECK_ERR(m_StalePages.empty(), ...) of Destroy: whether it fires.
DestroyCheckFails(stale) == stale # <<>>

\* VERIFY(m_AvailablePages.empty() && m_StalePages.empty(), ...) of the
\* manager's destructor: whether it fires.
ManagerDtorCheckFails(avail, stale) == ~(avail = <<>> /\ stale = <<>>)

\* VERIFY(m_AllocatedPages.empty(), ...) of the heap's destructor: whether it
\* fires.
HeapDtorCheckFails(Pages) == Pages # <<>>

\* The ids of the valid pages of a sequence of pages.
PageIds(Pages) == {Pages[i].id : i \in {j \in DOMAIN Pages : IsValid(Pages[j])}}

\* The pages of a sequence of stale pages.
StalePagesOf(stale) == [i \in DOMAIN stale |-> stale[i].Page]

\* D3D12DynamicMemoryManager::Destroy(LastCompletedFenceValue): the stale pages
\* that are completed are released, then every page of the manager is
\* destroyed.
Destroy ==
    /\ LET r == ReleaseStalePages(m_StalePages, m_AvailablePages, CompletedFenceValue)
       IN  DestroyedPages' = DestroyedPages
                \cup PageIds(r.Available) \cup PageIds(StalePagesOf(r.Stale))
    /\ m_StalePages' = <<>>
    /\ m_AvailablePages' = <<>>
    /\ UNCHANGED <<devVars, heapVars, pc, CtxFence, queueVars>>

Next ==
    \/ \E c \in Contexts, SizeInBytes \in SizeInputs, Alignment \in AlignInputs,
          DeviceOk \in BOOLEAN : Allocate(c, SizeInBytes, Alignment, DeviceOk)
    \/ \E c \in Contexts : ReadFence(c)
    \/ \E c \in Contexts : FinishFrame(c)
    \/ SignalFence
    \/ CompleteFence
    \/ ReleaseStale
    \/ Destroy

Spec == Init /\ [][Next]_vars

\* One heap alone, requests over the range of the size type.
HeapCtx == CHOOSE c \in Contexts : TRUE

NextHeap ==
    \/ \E SizeInBytes \in AllSizes, Alignment \in AlignInputs, DeviceOk \in BOOLEAN :
          Allocate(HeapCtx, SizeInBytes, Alignment, DeviceOk)
    \/ ReadFence(HeapCtx)
    \/ FinishFrame(HeapCtx)

SpecHeap == Init /\ [][NextHeap]_vars

\* ------------------------------------------------------------ properties

\* The page at the back of a sequence of pages.
Back(Pages) == Pages[Len(Pages)]

\* The elements of a sequence.
Range(seq) == {seq[i] : i \in DOMAIN seq}

\* Sizes a caller may ask AllocatePage for.
PageRequests == 0 .. (Modulus - 1)

\* C1: every Allocate(S, A) that returns a non-empty allocation returns an
\* offset that is a multiple of A, and [offset, offset + S) lies within the
\* capacity of the page at the back of the allocated pages.
C1_AlignedWithinPage ==
    [][\A c \in Contexts, S \in AllSizes, A \in AlignInputs, d \in BOOLEAN :
          Allocate(c, S, A, d) =>
              LET Allocation == AllocateCall(c, S, A, d).Allocation
              IN  Allocation.Valid =>
                      /\ Allocation.Offset % A = 0
                      /\ Allocation.Offset + S <= GetSize(Back(m_AllocatedPages'[c]))
      ]_vars

\* Context c makes the step of FinishFrame.
FinishFrameStep(c) == pc[c] = "finishing" /\ pc'[c] = "frame"

\* C2: a page given to DiscardPages by FinishFrame(F) is queued with the fence
\* value F, and a queued page leaves the stale pages only by a call of the
\* manager (no heap takes it), made when its fence value is completed or
\* destroying the page: it is neither available nor handed to a context while
\* the completed fence value is smaller than F.
C2_FenceGating ==
    [][/\ \A c \in Contexts :
            FinishFrameStep(c) =>
                \A i \in DOMAIN m_AllocatedPages[c] :
                    [Page |-> m_AllocatedPages[c][i], FenceValue |-> CtxFence[c]]
                        \in Range(m_StalePages')
       /\ \A e \in Range(m_StalePages) :
            \/ e \in Range(m_StalePages')
            \/ /\ e.FenceValue <= CompletedFenceValue \/ e.Page.id \in DestroyedPages'
               /\ UNCHANGED <<heapVars, pc>>
       /\ \A e \in Range(m_StalePages') :
            e.FenceValue > CompletedFenceValue' =>
                /\ e.Page \notin Range(m_AvailablePages')
                /\ \A c \in Contexts : e.Page \notin Range(m_AllocatedPages'[c])
      ]_vars

\* C2 witness: a page discarded with a fence value that is not completed is
\* still queued after the GPU has completed an earlier fence value.
C2_Witness ==
    /\ CompletedFenceValue > 0
    /\ \E e \in Range(m_StalePages) :
          IsValid(e.Page) /\ e.FenceValue > CompletedFenceValue

\* C3: in every state, ReleaseStalePages(c) leaves no page whose fence value
\* is at most c in the stale pages: every such page is made available.
C3_ReclaimComplete ==
    LET r == ReleaseStalePages(m_StalePages, m_AvailablePages, CompletedFenceValue)
    IN  \A e \in Range(m_StalePages) :
            e.FenceValue <= CompletedFenceValue =>
                /\ e \notin Range(r.Stale)
                /\ e.Page \in Range(r.Available)

\* C4 as claimed: AllocatePage(minSize) returns a page whose size is at least
\* minSize, whether it comes from the available pages or from the device,
\* the failure of the device included.
C4_CapacityAtLeastMinSize ==
    \A minSize \in PageRequests, d \in BOOLEAN :
        GetSize(AllocatePage(m_AvailablePages, Device, minSize, d).Page) >= minSize

\* C4 amended: AllocatePage(minSize) returns a page that is invalid (of size
\* 0) or whose size is at least minSize.
C4_ValidCapacityAtLeastMinSize ==
    \A minSize \in PageRequests, d \in BOOLEAN :
        LET Page == AllocatePage(m_AvailablePages, Device, minSize, d).Page
        IN  IF IsValid(Page) THEN GetSize(Page) >= minSize ELSE GetSize(Page) = 0

\* C4 witness: an available page larger than a nominal page next to the
\* device being out of memory for a page of that size: a request is served
\* by the larger page, a larger request fails.
C4_Witness ==
    /\ \E i \in DOMAIN m_AvailablePages :
          IsValid(m_AvailablePages[i]) /\ GetSize(m_AvailablePages[i]) > PageSize
    /\ \E minSize \in PageRequests :
          LET r == AllocatePage(m_AvailablePages, Device, minSize, TRUE)
          IN  r.Source = "available" /\ GetSize(r.Page) > minSize /\ minSize > 0
    /\ \E minSize \in PageRequests :
          ~IsValid(AllocatePage(m_AvailablePages, Device, minSize, TRUE).Page)

\* C5: in every state where a heap holds a page, Destroy() fails its check.
C5_DestroyDetectsOutstanding ==
    (\E c \in Contexts : m_AllocatedPages[c] # <<>>)
        => DestroyCheckFails(
              ReleaseStalePages(m_StalePages, m_AvailablePages,
                                CompletedFenceValue).Stale)

\* The number of places (available pages, stale pages, heaps) holding page id.
Holders(id) ==
    Cardinality({i \in DOMAIN m_AvailablePages : m_AvailablePages[i].id = id})
    + Cardinality({i \in DOMAIN m_StalePages : m_StalePages[i].Page.id = id})
    + Cardinality({<<c, i>> \in Contexts \X (1 .. NumCreated) :
                      /\ i \in DOMAIN m_AllocatedPages[c]
                      /\ m_AllocatedPages[c][i].id = id})

\* C6: every valid page ever created is held exactly once, by the available
\* pages, by the stale pages or by one heap, until Destroy releases it.
C6_ExclusiveOwnership ==
    \A id \in 1 .. NumCreated :
        Holders(id) = IF id \in DestroyedPages THEN 0 ELSE 1

\* C6 witness: pages created by the device are held by both heaps and by the
\* manager at once.
C6_Witness ==
    /\ \A c \in Contexts : m_AllocatedPages[c] # <<>>
    /\ PageIds(m_AvailablePages) \cup PageIds(StalePagesOf(m_StalePages)) # {}

\* Smallest N * 2^k that is at least S.
RECURSIVE SmallestPowerOfTwoMultiple(_, _)
SmallestPowerOfTwoMultiple(N, S) ==
    IF N >= S THEN N ELSE SmallestPowerOfTwoMultiple(2 * N, S)

\* C7: Allocate(S, A) with S larger than the page size that needs a new page
\* (and is not refused the page by the device) asks the manager for a page of
\* the smallest power-of-two multiple of the page size that is at least S,
\* adds exactly one page to the allocated pages and returns the allocation at
\* offset 0 of it.
C7_OversizedRequest ==
    [][\A c \in Contexts, S \in AllSizes, A \in AlignInputs, d \in BOOLEAN :
          LET call == AllocateCall(c, S, A, d)
          IN  (/\ Allocate(c, S, A, d)
               /\ S > PageSize
               /\ call.NeedNewPage
               /\ ~(call.Source = "device" /\ ~IsValid(call.NewPage)))
              => /\ pc'[c] = "frame"
                 /\ call.NewPageSize = SmallestPowerOfTwoMultiple(PageSize, S)
                 /\ m_AllocatedPages'[c] = Append(m_AllocatedPages[c], call.NewPage)
                 /\ call.Allocation.Valid
                 /\ call.Allocation.Offset = 0
                 /\ call.Allocation.PageId = call.NewPage.id
      ]_vars

\* C8: FinishFrame(F) appends every page of the heap to the stale pages with
\* the fence value F and leaves the heap without pages, with an invalid
\* offset and with no available, allocated or used size.
C8_FinishFrameEmpties ==
    [][\A c \in Contexts :
          FinishFrameStep(c) =>
              /\ m_StalePages' = m_StalePages \o
                    [i \in DOMAIN m_AllocatedPages[c] |->
                        [Page |-> m_AllocatedPages[c][i], FenceValue |-> CtxFence[c]]]
              /\ m_AllocatedPages'[c] = <<>>
              /\ m_CurrOffset'[c] = InvalidOffset
              /\ m_AvailableSize'[c] = 0
              /\ m_CurrAllocatedSize'[c] = 0
              /\ m_CurrUsedSize'[c] = 0
      ]_vars

\* C8 witness: a heap is empty again after a frame whose two pages are queued
\* with the same fence value.
C8_Witness ==
    \E c \in Contexts :
        /\ pc[c] = "frame"
        /\ m_AllocatedPages[c] = <<>>
        /\ m_CurrOffset[c] = InvalidOffset
        /\ \E i \in DOMAIN m_StalePages :
              /\ i + 1 \in DOMAIN m_StalePages
              /\ m_StalePages[i].FenceValue = m_StalePages[i + 1].FenceValue
              /\ \A d \in Contexts \ {c} : m_AllocatedPages[d] = <<>> /\ pc[d] = "frame"
              /\ NumCreated = 2

\* C9: an Allocate that asks the manager for a page returns the empty
\* allocation when the page it is given is invalid and a non-empty
\* allocation in the new page when the page is valid.
C9_EmptyOnInvalidPage ==
    \A c \in Contexts, S \in AllSizes, A \in AlignInputs, d \in BOOLEAN :
        LET call == AllocateCall(c, S, A, d)
        IN  (pc[c] = "frame" /\ call.Source # "none") =>
                /\ call.Allocation.Valid <=> IsValid(call.NewPage)
                /\ ~IsValid(call.NewPage) => call.Allocation = EmptyAllocation
                /\ IsValid(call.NewPage) => call.Allocation.PageId = call.NewPage.id

\* C9 witness: a heap holds a page in which a request does not fit, and the
\* device refuses the new page.
C9_Witness ==
    \E c \in Contexts, S \in AllSizes, A \in AlignInputs :
        LET call == AllocateCall(c, S, A, FALSE)
        IN  /\ pc[c] = "frame"
            /\ m_AllocatedPages[c] # <<>>
            /\ call.NeedNewPage
            /\ call.Source = "device"
            /\ ~IsValid(call.NewPage)
            /\ ~call.Allocation.Valid

\* C10: the sizes allocated from a page never sum to more than its size, and
\* the bytes used in a frame never exceed the sizes of the pages allocated in
\* the frame.
C10_UsedWithinCapacity ==
    \A c \in Contexts :
        /\ m_AllocatedPages[c] # <<>> =>
              PageUsed[c] <= GetSize(Back(m_AllocatedPages[c]))
        /\ m_CurrUsedSize[c] <= m_CurrAllocatedSize[c]

\* C11: Destroy(c) first releases every stale page whose fence value is at
\* most c, then fails its check exactly when stale pages are left; after
\* Destroy both containers are empty and the check of the manager's
\* destructor passes, while it fails for a manager that holds any page.
C11_Teardown ==
    [][/\ Destroy =>
            LET r == ReleaseStalePages(m_StalePages, m_AvailablePages,
                                       CompletedFenceValue)
            IN  /\ \A e \in Range(m_StalePages) :
                      e.FenceValue <= CompletedFenceValue => e \notin Range(r.Stale)
                /\ DestroyCheckFails(r.Stale) <=> r.Stale # <<>>
                /\ m_AvailablePages' = <<>> /\ m_StalePages' = <<>>
                /\ ~ManagerDtorCheckFails(m_AvailablePages', m_StalePages')
       /\ (m_AvailablePages # <<>> \/ m_StalePages # <<>>) =>
            ManagerDtorCheckFails(m_AvailablePages, m_StalePages)
      ]_vars

\* C12: no call waits for the GPU: AllocatePage answers in every state, with
\* a page created by the device when no available page is large enough,
\* whatever the stale pages hold, and no Allocate or FinishFrame call is left
\* without returning.
C12_NeverBlocks ==
    /\ \A c \in Contexts : pc[c] # "hung"
    /\ \A minSize \in PageRequests, d \in BOOLEAN :
          LET r == AllocatePage(m_AvailablePages, Device, minSize, d)
          IN  (\A i \in DOMAIN m_AvailablePages :
                  GetSize(m_AvailablePages[i]) < minSize)
              => /\ r.Source = "device"
                 /\ r.Available = m_AvailablePages
                 /\ r.Page \notin Range(StalePagesOf(m_StalePages))

\* C13: the stale pages are ordered by non-decreasing fence value.
C13_FenceOrdered ==
    \A i, j \in DOMAIN m_StalePages :
        i < j => m_StalePages[i].FenceValue <= m_StalePages[j].FenceValue

\* C14: AllocatePage(minSize) is best-fit: when available pages of at least
\* minSize exist it returns one of the smallest of them, erases it alone and
\* creates nothing; otherwise it leaves the available pages as they are and
\* asks the device for a page of exactly minSize.
C14_BestFit ==
    \A minSize \in PageRequests, d \in BOOLEAN :
        LET r == AllocatePage(m_AvailablePages, Device, minSize, d)
            fit == {i \in DOMAIN m_AvailablePages :
                       GetSize(m_AvailablePages[i]) >= minSize}
        IN  IF fit # {}
            THEN /\ r.Source = "available"
                 /\ r.Device = Device
                 /\ \E i \in fit :
                       /\ r.Page = m_AvailablePages[i]
                       /\ \A j \in fit : GetSize(r.Page) <= GetSize(m_AvailablePages[j])
                       /\ Len(r.Available) = Len(m_AvailablePages) - 1
                       /\ \A j \in DOMAIN r.Available :
                             r.Available[j] =
                                 m_AvailablePages[IF j < i THEN j ELSE j + 1]
            ELSE /\ r.Source = "device"
                 /\ r.Available = m_AvailablePages
                 /\ IF IsValid(r.Page)
                    THEN /\ GetSize(r.Page) = minSize
                         /\ r.Device.Created = NumCreated + 1
                         /\ r.Device.Used = DeviceUsed + minSize
                    ELSE r.Device = Device

\* C14 witness: two available pages of different sizes are both large enough
\* for a request, and a larger request is left to the device.
C14_Witness ==
    /\ \E i, j \in DOMAIN m_AvailablePages :
          /\ IsValid(m_AvailablePages[i]) /\ IsValid(m_AvailablePages[j])
          /\ GetSize(m_AvailablePages[i]) < GetSize(m_AvailablePages[j])
          /\ AllocatePage(m_AvailablePages, Device, PageSize, TRUE).Page
                = m_AvailablePages[i]
    /\ \E minSize \in PageRequests :
          AllocatePage(m_AvailablePages, Device, minSize, TRUE).Source = "device"

\* Bytes from offset up to the next multiple of alignment, in unbounded
\* arithmetic.
Padding(offset, alignment) ==
    ((offset + alignment - 1) \div alignment) * alignment - offset

\* C15: an Allocate(S, A) that returns (and is not refused the page by the
\* device) adds a page to the allocated pages if and only if the heap holds
\* no page or S plus the padding at the offset exceeds the available size;
\* the page comes from the available pages, with no page created, when one
\* of them is large enough.
C15_ReuseUntilExhausted ==
    [][\A c \in Contexts, S \in AllSizes, A \in AlignInputs, d \in BOOLEAN :
          LET call == AllocateCall(c, S, A, d)
              exhausted ==
                  \/ m_AllocatedPages[c] = <<>>
                  \/ S + Padding(m_CurrOffset[c], A) > m_AvailableSize[c]
          IN  (/\ Allocate(c, S, A, d)
               /\ pc'[c] = "frame"
               /\ ~(call.Source = "device" /\ ~IsValid(call.NewPage)))
              => /\ exhausted <=>
                       Len(m_AllocatedPages'[c]) = Len(m_AllocatedPages[c]) + 1
                 /\ ~exhausted => m_AllocatedPages'[c] = m_AllocatedPages[c]
                 /\ (exhausted /\ \E i \in DOMAIN m_AvailablePages :
                         GetSize(m_AvailablePages[i]) >= call.NewPageSize)
                    => /\ call.Source = "available"
                       /\ NumCreated' = NumCreated
      ]_vars

\* C16: within a frame the ranges returned from one page are disjoint and
\* their offsets increase: an allocation of a positive size starts at or
\* after the end of every range returned from the page before it; the
\* offset never moves backwards inside a page, and the offset plus the
\* available size is the size of the page at the back.
C16_DisjointIncreasing ==
    [][\A c \in Contexts, S \in AllSizes, A \in AlignInputs, d \in BOOLEAN :
          LET call == AllocateCall(c, S, A, d)
              samePage == m_AllocatedPages'[c] = m_AllocatedPages[c]
          IN  (Allocate(c, S, A, d) /\ call.Allocation.Valid)
              => /\ (samePage /\ S > 0) => call.Allocation.Offset >= HighWater[c]
                 /\ samePage => m_CurrOffset'[c] >= m_CurrOffset[c]
                 /\ m_CurrOffset'[c] + m_AvailableSize'[c]
                       = GetSize(Back(m_AllocatedPages'[c]))
      ]_vars

\* C17: an Allocate that returns the empty allocation changes nothing: the
\* allocated pages, the offset, the available size, the current and peak
\* sizes are what they were (and so are the manager and the device), so a
\* request that fits in the page still held is served from that page.
C17_FailureChangesNothing ==
    \A c \in Contexts, S \in AllSizes, A \in AlignInputs, d \in BOOLEAN :
        LET call == AllocateCall(c, S, A, d)
        IN  (pc[c] = "frame" /\ ~call.Hangs /\ ~call.Allocation.Valid)
            => /\ call.Pages = m_AllocatedPages[c]
               /\ call.CurrOffset = m_CurrOffset[c]
               /\ call.AvailableSize = m_AvailableSize[c]
               /\ call.CurrAllocatedSize = m_CurrAllocatedSize[c]
               /\ call.CurrUsedSize = m_CurrUsedSize[c]
               /\ call.PeakAllocatedSize = m_PeakAllocatedSize[c]
               /\ call.PeakUsedSize = m_PeakUsedSize[c]
               /\ call.Available = m_AvailablePages
               /\ call.Device = Device
               /\ \A S2 \in AllSizes, A2 \in AlignInputs, d2 \in BOOLEAN :
                     (S2 < S /\ Fits(m_CurrOffset[c], m_AvailableSize[c], S2, A2))
                     => LET next == AllocateCall(c, S2, A2, d2)
                        IN  /\ next.Allocation.Valid
                            /\ next.Pages = m_AllocatedPages[c]
                            /\ next.Allocation.PageId = Back(m_AllocatedPages[c]).id

\* C17 witness: a heap holds a partly used page, a request that does not fit
\* is refused the new page by the device, and a smaller request fits in the
\* page held.
C17_Witness ==
    \E c \in Contexts, S \in AllSizes, A \in AlignInputs :
        LET call == AllocateCall(c, S, A, FALSE)
        IN  /\ pc[c] = "frame"
            /\ m_AllocatedPages[c] # <<>>
            /\ m_CurrUsedSize[c] > 0
            /\ m_PeakAllocatedSize[c] > m_CurrAllocatedSize[c]
            /\ ~call.Hangs /\ ~call.Allocation.Valid
            /\ \E S2 \in AllSizes :
                  S2 > 0 /\ S2 < S /\ Fits(m_CurrOffset[c], m_AvailableSize[c], S2, A)

\* C18: the page size loop of Allocate exits for every request, with a page
\* size that is at least the requested size, so every Allocate returns.
C18_GrowthLoopTerminates ==
    [][\A c \in Contexts, S \in AllSizes, A \in AlignInputs, d \in BOOLEAN :
          Allocate(c, S, A, d) =>
              LET call == AllocateCall(c, S, A, d)
              IN  /\ ~call.Hangs
                  /\ pc'[c] = "frame"
                  /\ call.NeedNewPage => call.NewPageSize >= S
      ]_vars

\* C19: Allocate never returns a non-empty allocation whose size exceeds what
\* is left of the current page after the aligned offset.
C19_FitTestSound ==
    [][\A c \in Contexts, S \in AllSizes, A \in AlignInputs, d \in BOOLEAN :
          LET Allocation == AllocateCall(c, S, A, d).Allocation
          IN  (Allocate(c, S, A, d) /\ Allocation.Valid)
              => S <= GetSize(Back(m_AllocatedPages'[c])) - Allocation.Offset
      ]_vars

\* C20: the available pages and the stale pages hold valid pages only.
C20_OnlyValidPagesStored ==
    /\ \A i \in DOMAIN m_AvailablePages : IsValid(m_AvailablePages[i])
    /\ \A i \in DOMAIN m_StalePages : IsValid(m_StalePages[i].Page)

====
